---- MODULE Spec2Model ----
(***************************************************************************)
(* A model of ml_research_toolkit/loggers/csv_logger.py (class CSVLogger). *)
(*                                                                         *)
(* One logger instance works on one path.  The state is the instance's     *)
(* attributes (autosave, headers_written, keys), the file at filepath      *)
(* (whether it exists, and its lines) and, for the step-wise view of       *)
(* _append_row, the position inside it and the writer's buffer.  The       *)
(* variable h is a history variable: it records the last call and a few    *)
(* facts about the calls before it, and no action reads it.                *)
(*                                                                         *)
(* The variable fn belongs to the utility functions modelled further down  *)
(* (gridsearch_params, filter_run, dict_to_filename): it records the last  *)
(* call of one of them, and the logger neither reads nor writes it.        *)
(*                                                                         *)
(* A line of the file is the sequence of its fields as csv.writer wrote    *)
(* them (the text of each cell).  csv.writer builds a whole line and hands *)
(* it to the file object in one write, so a line is the unit of writing.   *)
(***************************************************************************)
EXTENDS Integers, Sequences, FiniteSets, TLC

VARIABLES autosave, headers_written, keys, exists, lines, pc, buf, h, fn, other,
          connected, refresh_enabled, kill_enabled, selected, table, loaders, events, gui_pc

vars == <<autosave, headers_written, keys, exists, lines, pc, buf, h, fn, other,
         connected, refresh_enabled, kill_enabled, selected, table, loaders, events, gui_pc>>

(* The variables of the qstat window (cluster/gui_qstat.py), modelled
   further down. *)
guiVars == <<connected, refresh_enabled, kill_enabled, selected, table,
             loaders, events, gui_pc>>

(* No window: the views of the logger and of the utilities keep it so. *)
NoGui ==
  /\ connected = FALSE
  /\ refresh_enabled = FALSE
  /\ kill_enabled = FALSE
  /\ selected = FALSE
  /\ table = <<>>
  /\ loaders = <<>>
  /\ events = <<>>
  /\ gui_pc = "off"

(* The file never holds more than MaxLines lines in the model. *)
MaxLines == 3

(***************************************************************************)
(* Python values.  None for the attribute keys is encoded as a sequence    *)
(* that no list of column names equals.                                    *)
(***************************************************************************)
None == <<"<None>">>

PyNone == [t |-> "none", v |-> <<>>]

PyInt(n) == [t |-> "int", v |-> <<n>>]

PyList(s) == [t |-> "list", v |-> s]

PyArray(s) == [t |-> "ndarray", v |-> s]

(* The column names and the values the calls are drawn from. *)
Keys == {"a", "b"}

Values == {PyInt(1), PyArray(<<1, 2>>)}

Range(s) == {s[i] : i \in DOMAIN s}

Last(s) == s[Len(s)]

(* kwargs of a log call: an ordered mapping, here a sequence of <<key, value>>
   pairs with distinct keys (a dict), of at least one pair. *)
Kwargs ==
  {kw \in UNION {[1..n -> Keys \X Values] : n \in 1..Cardinality(Keys)} :
     \A i, j \in DOMAIN kw : kw[i][1] = kw[j][1] => i = j}

(* list(kwargs.keys()) *)
KwKeys(kw) == [i \in DOMAIN kw |-> kw[i][1]]

KeySet(kw) == {kw[i][1] : i \in DOMAIN kw}

(* kwargs.get(k, None) *)
KwGet(kw, k) ==
  IF k \in KeySet(kw)
  THEN (CHOOSE p \in Range(kw) : p[1] = k)[2]
  ELSE PyNone

(***************************************************************************)
(* Text of a value.  str() of an int and of a list, and what csv.writer    *)
(* writes for a cell: None as the empty field, anything else as str().     *)
(***************************************************************************)
Digits == <<"0", "1", "2", "3", "4", "5", "6", "7", "8", "9">>

IntStr(n) == Digits[n + 1]

RECURSIVE JoinInts(_)
JoinInts(s) ==
  IF Len(s) = 0 THEN ""
  ELSE IF Len(s) = 1 THEN IntStr(s[1])
  ELSE IntStr(s[1]) \o ", " \o JoinInts(Tail(s))

ListStr(s) == "[" \o JoinInts(s) \o "]"

(* log, lines 43-49: tolist() for array-likes, then str() for lists. *)
Convert(v) ==
  LET u == IF v.t = "ndarray" THEN PyList(v.v) ELSE v
  IN IF u.t = "list" THEN [t |-> "str", v |-> <<ListStr(u.v)>>] ELSE u

(* csv.writer: the text of one cell. *)
CellText(v) ==
  CASE v.t = "none" -> ""
    [] v.t = "int" -> IntStr(v.v[1])
    [] v.t = "str" -> v.v[1]
    [] OTHER -> ListStr(v.v)

(***************************************************************************)
(* log, lines 37-50.                                                       *)
(***************************************************************************)
MutSchemaSorted(ks, kw) ==
  IF ks # None THEN ks
  ELSE IF KeySet(kw) = {"a", "b"} THEN <<"a", "b">> ELSE KwKeys(kw)

SchemaFor(ks, kw) == IF ks = None THEN KwKeys(kw) ELSE ks

Row(ks, kw) == [i \in DOMAIN ks |-> CellText(Convert(KwGet(kw, ks[i])))]

(***************************************************************************)
(* _append_row, lines 57-64: what the writer puts in the buffer.           *)
(***************************************************************************)
MutHeaderAlways(new_file, hw) == TRUE

MutHeaderNever(new_file, hw) == ~new_file /\ ~hw

HeaderNeeded(new_file, hw) == new_file \/ ~hw

Pending(new_file, hw, ks, row) ==
  IF HeaderNeeded(new_file, hw) THEN <<ks, row>> ELSE <<row>>

(***************************************************************************)
(* pl.read_csv as load_from_disk and to_dataframe use it (polars'          *)
(* defaults): an empty file is an error; the first line names the columns, *)
(* a repeated name x becoming x_duplicated_<n>; a later line with more     *)
(* fields than the first is an error, one with fewer is padded with nulls. *)
(***************************************************************************)
RECURSIVE CountIn(_, _, _)
CountIn(s, n, x) ==
  IF n = 0 THEN 0
  ELSE CountIn(s, n - 1, x) + (IF s[n] = x THEN 1 ELSE 0)

Columns(first) ==
  [i \in DOMAIN first |->
     LET c == CountIn(first, i - 1, first[i])
     IN IF c = 0 THEN first[i]
        ELSE first[i] \o "_duplicated_" \o IntStr(c - 1)]

ReadCsv(ls) ==
  IF Len(ls) = 0 THEN [exc |-> "NoDataError", columns |-> <<>>, height |-> 0]
  ELSE IF \E i \in 2..Len(ls) : Len(ls[i]) > Len(ls[1])
  THEN [exc |-> "ComputeError", columns |-> <<>>, height |-> 0]
  ELSE [exc |-> "", columns |-> Columns(ls[1]), height |-> Len(ls) - 1]

(***************************************************************************)
(* The files a logger may find at its path when it is constructed: none,   *)
(* an empty one, a header alone, a header and one row.                     *)
(***************************************************************************)
FoundFiles ==
  {[exists |-> FALSE, lines |-> <<>>],
   [exists |-> TRUE, lines |-> <<>>],
   [exists |-> TRUE, lines |-> << <<"a", "b">> >>],
   [exists |-> TRUE, lines |-> << <<"a", "b">>, <<"1", "1">> >>]}

(* other holds the attributes of a second instance on the same path; in
   the views of one instance there is none. *)
NoOther == [autosave |-> FALSE, headers_written |-> FALSE, keys |-> None]

(* fn records the last call of a utility function; none yet. *)
NoCall == [op |-> "", args |-> <<>>, ret |-> <<>>]

(* History: the call just made, and what the calls before it established. *)
Hist(op, kw, exc, removed, fresh, nlog, creator) ==
  [op |-> op, kw |-> kw, exc |-> exc, removed |-> removed,
   fresh |-> fresh, nlog |-> nlog, creator |-> creator,
   key |-> "", ret |-> <<>>, height |-> 0]

(* __init__, lines 21-29. *)
Init ==
  /\ \E f \in FoundFiles :
       /\ exists = f.exists
       /\ lines = f.lines
       /\ headers_written = f.exists
       /\ h = Hist("init", <<>>, "", None, ~f.exists, 0, FALSE)
  /\ autosave \in BOOLEAN
  /\ keys = None
  /\ pc = "idle"
  /\ buf = <<>>
  /\ fn = NoCall
  /\ NoGui
  /\ other = NoOther

(* A new instance on the same path (the previous one is dropped). *)
Construct(a) ==
  /\ pc = "idle"
  /\ autosave' = a
  /\ headers_written' = exists
  /\ keys' = None
  /\ h' = Hist("init", <<>>, "", None, ~exists, 0, FALSE)
  /\ UNCHANGED <<exists, lines, pc, buf, fn, other, guiVars>>

(* The history after a log call with kwargs kw that leaves schema ks. *)
LogHist(kw, ks) ==
  Hist("log", kw, "",
       IF h.op = "remove" THEN h.removed ELSE None,
       h.fresh /\ KeySet(kw) = Range(ks),
       h.nlog + 1,
       IF autosave /\ ~exists THEN TRUE ELSE h.creator)

(* log, lines 31-66, as one step. *)
Log(kw) ==
  /\ pc = "idle"
  /\ LET ks == SchemaFor(keys, kw)
         row == Row(ks, kw)
         out == Pending(~exists, headers_written, ks, row)
     IN /\ h.nlog < MaxLines
        /\ autosave => Len(lines \o out) <= MaxLines
        /\ keys' = ks
        /\ h' = LogHist(kw, ks)
        /\ IF autosave
           THEN /\ exists' = TRUE
                /\ lines' = lines \o out
                /\ headers_written' = TRUE
           ELSE UNCHANGED <<exists, lines, headers_written>>
  /\ UNCHANGED <<autosave, pc, buf, fn, other, guiVars>>

(***************************************************************************)
(* load_from_disk, lines 95-100.  With no file, df is never bound and the  *)
(* return raises; read_csv may raise; neither changes the instance.        *)
(***************************************************************************)
LoadAdopts(df) == df.height > 0

LoadFromDisk ==
  /\ pc = "idle"
  /\ LET df == ReadCsv(lines)
         exc == IF ~exists THEN "UnboundLocalError" ELSE df.exc
     IN /\ h' = Hist("load_from_disk", <<>>, exc, None, FALSE, h.nlog, h.creator)
        /\ IF exists /\ df.exc = "" /\ LoadAdopts(df)
           THEN /\ keys' = df.columns
                /\ headers_written' = TRUE
           ELSE UNCHANGED <<keys, headers_written>>
  /\ UNCHANGED <<autosave, exists, lines, pc, buf, fn, other, guiVars>>

(* remove, lines 106-109. *)
MutRemoveAlways(ex) == TRUE

RemoveFinds(ex) == ex

MutRemoveKeepsKeys(ks) == ks

RemoveKeys(ks) == None

Remove ==
  /\ pc = "idle"
  /\ h' = Hist("remove", <<>>, "", keys, FALSE, 0, FALSE)
  /\ IF RemoveFinds(exists)
     THEN /\ exists' = FALSE
          /\ lines' = <<>>
          /\ headers_written' = FALSE
          /\ keys' = RemoveKeys(keys)
     ELSE UNCHANGED <<exists, lines, headers_written, keys>>
  /\ UNCHANGED <<autosave, pc, buf, fn, other, guiVars>>

Next ==
  \/ \E a \in BOOLEAN : Construct(a)
  \/ \E kw \in Kwargs : Log(kw)
  \/ LoadFromDisk
  \/ Remove

Spec == Init /\ [][Next]_vars

(***************************************************************************)
(* The step-wise view of log with autosave on: lines 37-64 up to the open  *)
(* (which creates the file) and the writes into the buffer, then the flush *)
(* and fsync of lines 65-66.  The process may die in between, at any       *)
(* statement of the with block: the instance is lost and a new process     *)
(* constructs a logger on the same path.  What the buffer then held        *)
(* (nothing, the header, or header and row) reaches the file when the      *)
(* process dies of an exception, since leaving the with block closes the   *)
(* file, and is lost when the process is killed.                           *)
(***************************************************************************)
LogOpen(kw) ==
  /\ pc = "idle"
  /\ LET ks == SchemaFor(keys, kw)
         row == Row(ks, kw)
         out == Pending(~exists, headers_written, ks, row)
     IN /\ h.nlog < MaxLines
        /\ autosave => Len(lines \o out) <= MaxLines
        /\ keys' = ks
        /\ h' = LogHist(kw, ks)
        /\ IF autosave
           THEN /\ exists' = TRUE
                /\ buf' = out
                /\ headers_written' = TRUE
                /\ pc' = "opened"
           ELSE UNCHANGED <<exists, buf, headers_written, pc>>
  /\ UNCHANGED <<autosave, lines, fn, other, guiVars>>

LogFlush ==
  /\ pc = "opened"
  /\ lines' = lines \o buf
  /\ buf' = <<>>
  /\ pc' = "idle"
  /\ UNCHANGED <<autosave, headers_written, keys, exists, h, fn, other, guiVars>>

Crash ==
  /\ pc = "opened"
  /\ \E a \in BOOLEAN : autosave' = a
  /\ \E n \in 0..MaxLines :
       /\ n <= Len(buf)
       /\ lines' = lines \o SubSeq(buf, 1, n)
  /\ headers_written' = exists
  /\ keys' = None
  /\ buf' = <<>>
  /\ pc' = "idle"
  /\ h' = Hist("init", <<>>, "", None, FALSE, 0, FALSE)
  /\ UNCHANGED <<exists, fn, other, guiVars>>

(* A logger constructed on a path where no file exists. *)
FreshInit ==
  /\ exists = FALSE
  /\ lines = <<>>
  /\ headers_written = FALSE
  /\ autosave \in BOOLEAN
  /\ keys = None
  /\ pc = "idle"
  /\ buf = <<>>
  /\ h = Hist("init", <<>>, "", None, TRUE, 0, FALSE)
  /\ fn = NoCall
  /\ NoGui
  /\ other = NoOther

CrashNext ==
  \/ \E kw \in Kwargs : LogOpen(kw)
  \/ LogFlush
  \/ Crash
  \/ LoadFromDisk
  \/ Remove

CrashSpec == FreshInit /\ [][CrashNext]_vars

(* The caller goes on calling the logger. *)
FairSpec == Spec /\ WF_vars(Next)

(* Calls on a logger constructed where no file exists, and on the loggers
   constructed later on the file it leaves. *)
RestartSpec == FreshInit /\ [][Next]_vars

(***************************************************************************)
(* The reading calls, and log called with something that is no mapping.    *)
(* None of them changes the instance or the file; the history records the  *)
(* call, what it raised and what it returned.                              *)
(***************************************************************************)
CallHist(op, key, exc, ret, height) ==
  [op |-> op, kw |-> <<>>, exc |-> exc, removed |-> None,
   fresh |-> h.fresh, nlog |-> h.nlog, creator |-> h.creator,
   key |-> key, ret |-> ret, height |-> height]

(* pl.DataFrame() *)
EmptyFrame == [exc |-> "", columns |-> <<>>, height |-> 0]

(* to_dataframe, lines 70-75: any failure of read_csv becomes RuntimeError. *)
ToDataframeResult(ex, ls) ==
  IF ~ex THEN EmptyFrame
  ELSE LET df == ReadCsv(ls)
       IN IF df.exc # ""
          THEN [exc |-> "RuntimeError", columns |-> <<>>, height |-> 0]
          ELSE df

ToDataframe ==
  /\ pc = "idle"
  /\ LET df == ToDataframeResult(exists, lines)
     IN h' = CallHist("to_dataframe", "", df.exc, df.columns, df.height)
  /\ UNCHANGED <<autosave, headers_written, keys, exists, lines, pc, buf, fn, other, guiVars>>

(***************************************************************************)
(* get, lines 79-80.  key in df is the test for a column of that name.     *)
(* For a column that is there, df[key] is a polars Series, which has       *)
(* to_list() and no tolist attribute: the call raises AttributeError.      *)
(***************************************************************************)
MutGetNoColumnTest(df, key) ==
  IF df.exc # "" THEN [exc |-> df.exc, ret |-> <<>>]
  ELSE IF key \in Range(df.columns)
  THEN [exc |-> "AttributeError", ret |-> <<>>]
  ELSE [exc |-> "ColumnNotFoundError", ret |-> <<>>]

GetResult(df, key) ==
  IF df.exc # "" THEN [exc |-> df.exc, ret |-> <<>>]
  ELSE IF key \in Range(df.columns)
  THEN [exc |-> "AttributeError", ret |-> <<>>]
  ELSE [exc |-> "", ret |-> <<>>]

(* The names get is called with: the column names and one that is none. *)
GetKeys == Keys \cup {"c"}

Get(key) ==
  /\ pc = "idle"
  /\ LET r == GetResult(ToDataframeResult(exists, lines), key)
     IN h' = CallHist("get", key, r.exc, r.ret, 0)
  /\ UNCHANGED <<autosave, headers_written, keys, exists, lines, pc, buf, fn, other, guiVars>>

(***************************************************************************)
(* log takes keyword arguments only (line 31): the call binds a mapping   *)
(* to kwargs.  A positional argument, or a double-star argument that is no *)
(* mapping, raises TypeError in the call itself, before line 37.           *)
(***************************************************************************)
DictArgs == {[t |-> "dict", v |-> kw] : kw \in Kwargs}

BadArgs ==
  {[t |-> "int", v |-> <<1>>],
   [t |-> "pairs", v |-> << <<"a", PyInt(1)>> >>],
   [t |-> "pairs", v |-> << <<"b", PyInt(1)>>, <<"a", PyInt(1)>> >>]}

MutAcceptsPairs(x) == x.t \in {"dict", "pairs"}

IsMapping(x) == x.t = "dict"

LogArg(x) ==
  IF IsMapping(x)
  THEN Log(x.v)
  ELSE /\ pc = "idle"
       /\ h' = CallHist("log", "", "TypeError", <<>>, 0)
       /\ UNCHANGED <<autosave, headers_written, keys, exists, lines, pc, buf, fn, other, guiVars>>

ApiNext ==
  \/ \E x \in DictArgs \cup BadArgs : LogArg(x)
  \/ LoadFromDisk
  \/ Remove
  \/ ToDataframe
  \/ \E key \in GetKeys : Get(key)

(* The calls of one instance, constructed on any of the found files. *)
ApiSpec == Init /\ [][ApiNext]_vars

(***************************************************************************)
(* Two instances constructed on the same path before the file exists.  The *)
(* first is the instance of the variables autosave, headers_written and    *)
(* keys; the attributes of the second are the fields of other.  Each log   *)
(* call runs as a whole.  With two writers the file is followed up to      *)
(* MaxPairLines lines.                                                     *)
(***************************************************************************)
MaxPairLines == 4

(* log, lines 31-66, called on the second instance. *)
LogOther(kw) ==
  /\ pc = "idle"
  /\ LET ks == SchemaFor(other.keys, kw)
         row == Row(ks, kw)
         out == Pending(~exists, other.headers_written, ks, row)
     IN /\ h.nlog < MaxLines
        /\ other.autosave => Len(lines \o out) <= MaxPairLines
        /\ h' = Hist("log", kw, "", None, FALSE, h.nlog + 1, h.creator)
        /\ IF other.autosave
           THEN /\ exists' = TRUE
                /\ lines' = lines \o out
                /\ other' = [other EXCEPT !.keys = ks, !.headers_written = TRUE]
           ELSE /\ other' = [other EXCEPT !.keys = ks]
                /\ UNCHANGED <<exists, lines>>
  /\ UNCHANGED <<autosave, headers_written, keys, pc, buf, fn, guiVars>>

(* __init__, lines 21-29, run twice while no file exists. *)
PairInit ==
  /\ exists = FALSE
  /\ lines = <<>>
  /\ headers_written = FALSE
  /\ autosave \in BOOLEAN
  /\ keys = None
  /\ pc = "idle"
  /\ buf = <<>>
  /\ h = Hist("init", <<>>, "", None, TRUE, 0, FALSE)
  /\ fn = NoCall
  /\ NoGui
  /\ \E a \in BOOLEAN :
       other = [autosave |-> a, headers_written |-> FALSE, keys |-> None]

PairNext ==
  \/ \E kw \in Kwargs : Log(kw)
  \/ \E kw \in Kwargs : LogOther(kw)

PairSpec == PairInit /\ [][PairNext]_vars

(***************************************************************************)
(* The utility functions gridsearch_params (utils/file_io.py of the built  *)
(* package), filter_run (wandb_tools/utils.py) and dict_to_filename        *)
(* (utils/file_io.py).  They are pure; fn records the last call, its       *)
(* arguments and what it returned.  A dict is the sequence of its          *)
(* <<key, value>> items in insertion order, with distinct keys.  A list    *)
(* given as a grid value holds Python values.                              *)
(***************************************************************************)
(* The longest list given as a grid value. *)
MaxList == 2

ListsOf(S, n) == UNION {[1..m -> S] : m \in 0..n}

Dicts(K, V) ==
  {d \in UNION {[1..m -> K \X V] : m \in 0..Cardinality(K)} :
     \A i, j \in DOMAIN d : d[i][1] = d[j][1] => i = j}

(* The grids: every key is given one number or a list of numbers. *)
GridKeys == {"lr", "track"}

GridValues == {PyInt(1)} \cup {PyList(s) : s \in ListsOf({PyInt(1), PyInt(2)}, MaxList)}

Grids == Dicts(GridKeys, GridValues)

(* v if isinstance(v, list) else [v] *)
AsList(v) == IF v.t = "list" THEN v.v ELSE <<v>>

(* zip over the value lists, in place of their product. *)
RECURSIVE MutProductZip(_)
MutProductZip(values) ==
  IF values = <<>> THEN << <<>> >>
  ELSE IF Len(values) = 1 THEN [n \in DOMAIN values[1] |-> <<values[1][n]>>]
  ELSE LET front == MutProductZip(SubSeq(values, 1, Len(values) - 1))
           last == values[Len(values)]
           m == IF Len(front) < Len(last) THEN Len(front) ELSE Len(last)
       IN [n \in 1..m |-> Append(front[n], last[n])]

(* itertools.product over the value lists, as a list: the rightmost list
   advances on every element. *)
RECURSIVE Product(_)
Product(values) ==
  IF values = <<>> THEN << <<>> >>
  ELSE LET front == Product(SubSeq(values, 1, Len(values) - 1))
           last == values[Len(values)]
       IN [n \in 1..(Len(front) * Len(last)) |->
             Append(front[((n - 1) \div Len(last)) + 1],
                    last[((n - 1) % Len(last)) + 1])]

gridsearch_params(search_params) ==
  LET sp == [i \in DOMAIN search_params |->
               <<search_params[i][1], AsList(search_params[i][2])>>]
      ks == [i \in DOMAIN sp |-> sp[i][1]]
      values == [i \in DOMAIN sp |-> sp[i][2]]
      combos == Product(values)
  IN [n \in DOMAIN combos |-> [i \in DOMAIN ks |-> <<ks[i], combos[n][i]>>]]

GridsearchParams(search_params) ==
  /\ fn' = [op |-> "gridsearch_params", args |-> <<search_params>>,
            ret |-> gridsearch_params(search_params)]
  /\ UNCHANGED <<autosave, headers_written, keys, exists, lines, pc, buf, h, other, guiVars>>

(* The configurations filter_run compares. *)
CfgValues == {PyInt(1), PyInt(2), PyNone}

Cfgs == Dicts(Keys, CfgValues)

filter_run(cfg_subset, cfg_full) ==
  \A i \in DOMAIN cfg_subset :
    ~(KwGet(cfg_full, cfg_subset[i][1]) # cfg_subset[i][2])

FilterRun(cfg_subset, cfg_full) ==
  /\ fn' = [op |-> "filter_run", args |-> <<cfg_subset, cfg_full>>,
            ret |-> filter_run(cfg_subset, cfg_full)]
  /\ UNCHANGED <<autosave, headers_written, keys, exists, lines, pc, buf, h, other, guiVars>>

(* The dicts dict_to_filename names, and the lists of keys it is given
   (None when the argument is left out). *)
NameDicts == Dicts(Keys, {PyInt(1), PyInt(2)})

IgnoreLists == {None, <<>>, <<"a">>}

SelectLists == {None, <<>>, <<"a">>, <<"b", "a">>, <<"c">>}

(* bool(x) of an optional list *)
Truthy(l) == l # None /\ l # <<>>

(* Order of the keys as Python compares str. *)
KeyOrder == <<"a", "b", "c">>

Ord(k) == CHOOSE i \in DOMAIN KeyOrder : KeyOrder[i] = k

(* {k: data[k] for k in keys if k in data} *)
select_keys_from_dict(data, ks) ==
  LET kept == SelectSeq([i \in DOMAIN ks |-> i],
                        LAMBDA i : /\ ks[i] \in KeySet(data)
                                   /\ \A j \in 1..(i - 1) : ks[j] # ks[i])
  IN [n \in DOMAIN kept |-> <<ks[kept[n]], KwGet(data, ks[kept[n]])>>]

(* {k: v for k, v in data.items() if k not in set(keys or [])} *)
remove_keys_from_dict(data, ks) ==
  LET keys_to_remove == IF Truthy(ks) THEN Range(ks) ELSE {}
  IN SelectSeq(data, LAMBDA it : it[1] \notin keys_to_remove)

(* sorted(filtered_data.items()): the keys are distinct, so the items are
   ordered by key. *)
RECURSIVE Sorted(_)
Sorted(items) ==
  IF items = <<>> THEN <<>>
  ELSE LET m == CHOOSE i \in DOMAIN items :
                  \A j \in DOMAIN items : Ord(items[i][1]) <= Ord(items[j][1])
       IN <<items[m]>> \o
          Sorted(SubSeq(items, 1, m - 1) \o SubSeq(items, m + 1, Len(items)))

(* delimiter.join(parts) *)
RECURSIVE Join(_, _)
Join(delimiter, parts) ==
  IF parts = <<>> THEN ""
  ELSE IF Len(parts) = 1 THEN parts[1]
  ELSE parts[1] \o delimiter \o Join(delimiter, Tail(parts))

(* The mutated test takes every list that is given, also the empty one. *)
MutSelectGiven(select_keys) == select_keys # None

(* if select_keys: *)
SelectUsed(select_keys) == Truthy(select_keys)

dict_to_filename(data, delimiter, ignore_keys, select_keys) ==
  LET filtered_data ==
        IF SelectUsed(select_keys) THEN select_keys_from_dict(data, select_keys)
        ELSE IF Truthy(ignore_keys) THEN remove_keys_from_dict(data, ignore_keys)
        ELSE data
      items == Sorted(filtered_data)
  IN Join(delimiter,
          [i \in DOMAIN items |->
             items[i][1] \o delimiter \o IntStr(items[i][2].v[1])])

DictToFilename(data, ignore_keys, select_keys) ==
  /\ fn' = [op |-> "dict_to_filename",
            args |-> <<data, "_", ignore_keys, select_keys>>,
            ret |-> dict_to_filename(data, "_", ignore_keys, select_keys)]
  /\ UNCHANGED <<autosave, headers_written, keys, exists, lines, pc, buf, h, other, guiVars>>

FnInit == FreshInit /\ autosave

FnNext ==
  \/ \E search_params \in Grids : GridsearchParams(search_params)
  \/ \E cfg_subset \in Cfgs, cfg_full \in Cfgs : FilterRun(cfg_subset, cfg_full)
  \/ \E data \in NameDicts, ignore_keys \in IgnoreLists, select_keys \in SelectLists :
       DictToFilename(data, ignore_keys, select_keys)

FnSpec == FnInit /\ [][FnNext]_vars

(***************************************************************************)
(* The qstat window, cluster/gui_qstat.py: QstatGUI and JobLoaderThread.   *)
(*                                                                         *)
(* The GUI thread runs one handler at a time; gui_pc says where it is:     *)
(* "idle" in the event loop, "question" and "info" in the modal dialogs of *)
(* kill_selected_job (their event loops deliver queued signals, but no     *)
(* click reaches the window), "qdel" inside ssh.exec, where nothing is     *)
(* delivered.  loaders holds every JobLoaderThread started so far, the     *)
(* last one being self.loader.  A loader is "started", then inside         *)
(* ssh.exec ("exec"), then past its emit ("ran"), then "finished".  The    *)
(* signals of a loader reach the GUI thread through its event queue,       *)
(* events, in the order they were emitted.  The output of qstat is the     *)
(* sequence of its lines.  The debug signal only prints and is left out.   *)
(*                                                                         *)
(* The window keeps one reference to a loader, self.loader.  A loader that *)
(* is replaced while its thread runs is an orphan: nothing refers to the   *)
(* QThread object any more.  What becomes of it is not fixed by the code:  *)
(* the object may be destroyed while its thread runs, which ends the       *)
(* process (gui_pc = "aborted"), or live on until run returns; each of its *)
(* signals may be delivered to its slot or be dropped.  A loader that is   *)
(* replaced after its run has returned is destroyed without harm, but the  *)
(* slots of lines 121 and 123 are lambdas that live with their sender:     *)
(* calls of them that are still queued may be discarded with it.  The      *)
(* model takes every one of these outcomes.                                *)
(***************************************************************************)
(* The number of loaders started in one behaviour. *)
MaxLoaders == 3

loggerVars == <<autosave, headers_written, keys, exists, lines, pc, buf, h, fn, other>>

(* What ssh.exec("qstat") gives: an exception, or (out, err). *)
Outputs == {<<"hdr", "sep">>, <<"hdr", "sep", "job1">>}

Raised == [raised |-> TRUE, out |-> <<>>, err |-> ""]

ExecResults ==
  {Raised}
  \cup {[raised |-> FALSE, out |-> o, err |-> ""] : o \in Outputs}
  \cup {[raised |-> FALSE, out |-> <<>>, err |-> "qstat: failed"],
        [raised |-> FALSE, out |-> <<"hdr", "sep", "job1">>, err |-> "warning"]}

Signal(sig, arg) == [sig |-> sig, arg |-> arg]

(* JobLoaderThread.run, lines 53-66: the signals it emits, in order. *)
RunEmits(res) ==
  IF res.raised THEN <<Signal("error", <<"exception">>)>>
  ELSE IF res.err # "" THEN <<Signal("error", <<res.err>>)>>
  ELSE IF Len(res.out) < 3 THEN <<Signal("jobs_loaded", <<>>)>>
  ELSE <<Signal("jobs_loaded", SubSeq(res.out, 3, Len(res.out)))>>

(* awaited records history: the run has returned and the slot of line 123
   has not run since. *)
NewLoader ==
  [st |-> "started", res |-> Raised, emitted |-> <<>>, orphan |-> FALSE,
   awaited |-> FALSE]

(* A signal of loader i as it waits in the event queue of the GUI thread. *)
From(i, sigs) ==
  [k \in DOMAIN sigs |-> [sig |-> sigs[k].sig, arg |-> sigs[k].arg, src |-> i]]

(* The signals connected to a lambda, lines 121 and 123; jobs_loaded is
   connected to the window's update_table, line 120. *)
LambdaSlots == {"error", "finished"}

(* The queue without the calls of the lambda slots of loader i. *)
Discard(evs, i) ==
  SelectSeq(evs, LAMBDA e : ~(e.src = i /\ e.sig \in LambdaSlots))

(* self.loader = JobLoaderThread(self.ssh), line 119: the previous loader
   loses its only reference; it is an orphan when its thread still runs. *)
Rebound(ls) ==
  [i \in DOMAIN ls |->
     IF ls[i].st # "finished" THEN [ls[i] EXCEPT !.orphan = TRUE] ELSE ls[i]]

(* load_jobs, lines 117-124, as the effect on the button, the loaders and
   the queued calls of the previous loader's lambda slots, which are
   delivered later or go with the loader. *)
LoadJobs ==
  /\ refresh_enabled' = FALSE
  /\ loaders' = Append(Rebound(loaders), NewLoader)
  /\ events' \in {events, Discard(events, Len(loaders))}

(* QstatGUI.__init__, lines 69-75: setup_ui, then auto_connect, which
   starts a load when the connection was made. *)
GuiInit ==
  /\ exists = FALSE
  /\ lines = <<>>
  /\ headers_written = FALSE
  /\ autosave = TRUE
  /\ keys = None
  /\ pc = "idle"
  /\ buf = <<>>
  /\ h = Hist("init", <<>>, "", None, TRUE, 0, FALSE)
  /\ fn = NoCall
  /\ other = NoOther
  /\ connected \in BOOLEAN
  /\ refresh_enabled = ~connected
  /\ loaders = IF connected THEN <<NewLoader>> ELSE <<>>
  /\ kill_enabled = FALSE
  /\ selected = FALSE
  /\ table = <<>>
  /\ events = <<>>
  /\ gui_pc = "idle"

(* The user clicks Refresh Jobs: load_jobs. *)
ClickRefresh ==
  /\ gui_pc = "idle"
  /\ refresh_enabled
  /\ Len(loaders) < MaxLoaders
  /\ LoadJobs
  /\ UNCHANGED <<connected, kill_enabled, selected, table, gui_pc>>
  /\ UNCHANGED loggerVars

(* The user selects a row: itemSelectionChanged enables Kill (lines 95-97). *)
SelectRow ==
  /\ gui_pc = "idle"
  /\ table # <<>>
  /\ ~selected
  /\ selected' = TRUE
  /\ kill_enabled' = TRUE
  /\ UNCHANGED <<connected, refresh_enabled, table, loaders, events, gui_pc>>
  /\ UNCHANGED loggerVars

(* The user clears the selection: itemSelectionChanged disables Kill
   (lines 95-97). *)
ClearSelection ==
  /\ gui_pc = "idle"
  /\ selected
  /\ selected' = FALSE
  /\ kill_enabled' = FALSE
  /\ UNCHANGED <<connected, refresh_enabled, table, loaders, events, gui_pc>>
  /\ UNCHANGED loggerVars

(* The user clicks Kill Selected Job: lines 145-150, up to the question. *)
ClickKill ==
  /\ gui_pc = "idle"
  /\ kill_enabled
  /\ Len(loaders) < MaxLoaders
  /\ gui_pc' = IF selected THEN "question" ELSE "idle"
  /\ UNCHANGED <<connected, refresh_enabled, kill_enabled, selected, table,
                 loaders, events>>
  /\ UNCHANGED loggerVars

(* The user answers the question; on Yes the GUI thread enters
   ssh.exec("qdel ..."), line 153. *)
AnswerQuestion(yes) ==
  /\ gui_pc = "question"
  /\ gui_pc' = IF yes THEN "qdel" ELSE "idle"
  /\ UNCHANGED <<connected, refresh_enabled, kill_enabled, selected, table,
                 loaders, events>>
  /\ UNCHANGED loggerVars

(* ssh.exec returns or raises, lines 152-157: the information dialog, or
   the error dialog and nothing more. *)
QdelReturns(ok) ==
  /\ gui_pc = "qdel"
  /\ ok => connected
  /\ gui_pc' = IF ok THEN "info" ELSE "idle"
  /\ UNCHANGED <<connected, refresh_enabled, kill_enabled, selected, table,
                 loaders, events>>
  /\ UNCHANGED loggerVars

(* The user closes the information dialog: load_jobs, lines 154-155. *)
KillReloads ==
  /\ gui_pc = "info"
  /\ gui_pc' = "idle"
  /\ LoadJobs
  /\ UNCHANGED <<connected, kill_enabled, selected, table>>
  /\ UNCHANGED loggerVars

(* update_table, lines 126-142.  The signals of the table are blocked, so
   Kill stays as it was; whether a row is still selected is left open when
   rows remain. *)
Deliver(ev) ==
  CASE ev.sig = "jobs_loaded" ->
         /\ table' = ev.arg
         /\ selected' \in (IF ev.arg = <<>> THEN {FALSE} ELSE {FALSE, selected})
         /\ UNCHANGED <<refresh_enabled, loaders>>
    [] ev.sig = "finished" ->
         /\ refresh_enabled' = TRUE
         /\ loaders' = [i \in DOMAIN loaders |->
                          [loaders[i] EXCEPT !.awaited = FALSE]]
         /\ UNCHANGED <<table, selected>>
    [] OTHER -> UNCHANGED <<table, selected, refresh_enabled, loaders>>

(* The GUI thread's event loop delivers the next queued signal to its
   slot (lines 120-123). *)
HandleEvent ==
  /\ gui_pc \in {"idle", "question", "info"}
  /\ events # <<>>
  /\ Deliver(Head(events))
  /\ events' = Tail(events)
  /\ UNCHANGED <<connected, kill_enabled, gui_pc>>
  /\ UNCHANGED loggerVars

(* A loader thread enters self.ssh.exec("qstat"), line 55. *)
ExecBegin(i) ==
  /\ gui_pc # "aborted"
  /\ i \in DOMAIN loaders
  /\ loaders[i].st = "started"
  /\ loaders' = [loaders EXCEPT ![i].st = "exec"]
  /\ UNCHANGED <<connected, refresh_enabled, kill_enabled, selected, table,
                 events, gui_pc>>
  /\ UNCHANGED loggerVars

(* ssh.exec returns or raises and run emits, lines 55-66.  Without a
   connection (client is None, or connect failed) exec can only raise.
   The signal of an orphan may be dropped. *)
ExecEnd(i, res, delivered) ==
  /\ gui_pc # "aborted"
  /\ i \in DOMAIN loaders
  /\ loaders[i].st = "exec"
  /\ res.raised \/ connected
  /\ delivered \/ loaders[i].orphan
  /\ loaders' = [loaders EXCEPT ![i].st = "ran", ![i].res = res,
                                ![i].emitted = RunEmits(res)]
  /\ events' = IF delivered THEN events \o From(i, RunEmits(res)) ELSE events
  /\ UNCHANGED <<connected, refresh_enabled, kill_enabled, selected, table, gui_pc>>
  /\ UNCHANGED loggerVars

(* run has returned: the thread ends and QThread emits finished.  The
   signal of an orphan may be dropped. *)
Finish(i, delivered) ==
  /\ gui_pc # "aborted"
  /\ i \in DOMAIN loaders
  /\ loaders[i].st = "ran"
  /\ delivered \/ loaders[i].orphan
  /\ loaders' = [loaders EXCEPT ![i].st = "finished", ![i].awaited = TRUE]
  /\ events' = IF delivered THEN events \o From(i, <<Signal("finished", <<>>)>>)
                ELSE events
  /\ UNCHANGED <<connected, refresh_enabled, kill_enabled, selected, table, gui_pc>>
  /\ UNCHANGED loggerVars

(* The QThread object of an orphan is destroyed while its thread runs:
   Qt ends the process. *)
Abort ==
  /\ gui_pc # "aborted"
  /\ \E i \in DOMAIN loaders : loaders[i].orphan /\ loaders[i].st # "finished"
  /\ gui_pc' = "aborted"
  /\ UNCHANGED <<connected, refresh_enabled, kill_enabled, selected, table,
                 loaders, events>>
  /\ UNCHANGED loggerVars

UserNext ==
  \/ ClickRefresh
  \/ SelectRow
  \/ ClearSelection
  \/ ClickKill
  \/ \E yes \in BOOLEAN : AnswerQuestion(yes)
  \/ KillReloads

ThreadNext ==
  \/ \E i \in 1..MaxLoaders : ExecBegin(i)
  \/ \E i \in 1..MaxLoaders, res \in ExecResults, delivered \in BOOLEAN :
       ExecEnd(i, res, delivered)
  \/ \E i \in 1..MaxLoaders, delivered \in BOOLEAN : Finish(i, delivered)

GuiNext ==
  \/ UserNext
  \/ \E ok \in BOOLEAN : QdelReturns(ok)
  \/ HandleEvent
  \/ ThreadNext
  \/ Abort

GuiSpec == GuiInit /\ [][GuiNext]_vars

(* The loader threads run and the GUI thread's ssh call returns.  The
   event loop delivers every queued signal: a signal is posted before the
   clicks that come after it, so it is delivered although the GUI thread
   is inside a handler now and again.  The user clicks or not. *)
GuiFairSpec ==
  /\ GuiSpec
  /\ SF_vars(HandleEvent)
  /\ WF_vars(\E ok \in BOOLEAN : QdelReturns(ok))
  /\ WF_vars(ThreadNext)

(***************************************************************************)
(* What the claims are stated with.                                        *)
(***************************************************************************)
HeaderLine(l) == \A i \in DOMAIN l : l[i] \in Keys

DataLine(l) == \A i \in DOMAIN l : l[i] \notin Keys

(* The text the file format prescribes for the sample values. *)
ExpectedText(v) ==
  CASE v = PyInt(1) -> "1"
    [] v = PyList(<<1, 2>>) -> "[1, 2]"
    [] v = PyArray(<<1, 2>>) -> "[1, 2]"
    [] OTHER -> ""

(* The projection of a call's kwargs onto a schema. *)
Projection(schema, kw) ==
  [i \in DOMAIN schema |->
     IF \E j \in DOMAIN kw : kw[j][1] = schema[i]
     THEN ExpectedText(kw[CHOOSE j \in DOMAIN kw : kw[j][1] = schema[i]][2])
     ELSE ""]

CellTexts == {"", "1", "[1, 2]"}

SomeRows == UNION {[1..n -> CellTexts] : n \in 1..Cardinality(Keys)}

(***************************************************************************)
(* C1.  A logger with autosave on, constructed where no file exists, after *)
(* N >= 1 log calls that all pass the same key set: the file is one header *)
(* line followed by exactly N data lines.                                  *)
(***************************************************************************)
C1_HeaderOnce ==
  (autosave /\ h.fresh /\ h.nlog >= 1) =>
    /\ exists
    /\ Len(lines) = h.nlog + 1
    /\ HeaderLine(lines[1])
    /\ \A i \in 2..Len(lines) : DataLine(lines[i])

C1_Witness == autosave /\ h.fresh /\ h.nlog = 2 /\ Len(lines) = 3

(***************************************************************************)
(* C2.  Once the schema is set, no operation other than remove (or the     *)
(* construction of another instance) changes it.                           *)
(***************************************************************************)
C2_SchemaImmutable ==
  [][(keys # None /\ h'.op \in {"log", "load_from_disk"}) => keys' = keys]_vars

(***************************************************************************)
(* C3.  load_from_disk on an existing file that is a header line with zero *)
(* or more data rows adopts the header as the schema and marks the header  *)
(* written; the log call after it appends one line projected onto that     *)
(* header and no header line.                                              *)
(***************************************************************************)
WellFormedFile ==
  /\ exists
  /\ Len(lines) >= 1
  /\ HeaderLine(lines[1])
  /\ \A i \in 2..Len(lines) : DataLine(lines[i]) /\ Len(lines[i]) = Len(lines[1])

C3_LoadAdoptsHeader ==
  [][/\ (h'.op = "load_from_disk" /\ WellFormedFile) =>
          (keys' = lines[1] /\ headers_written')
     /\ (h.op = "load_from_disk" /\ h'.op = "log" /\ autosave /\ WellFormedFile) =>
          lines' = Append(lines, Projection(lines[1], h'.kw))]_vars

(***************************************************************************)
(* C4.  After remove() the file does not exist, the schema is unset and    *)
(* the header-written flag is cleared.                                     *)
(***************************************************************************)
C4_RemoveResets ==
  (h.op = "remove") => (~exists /\ keys = None /\ ~headers_written)

(***************************************************************************)
(* C5.  With autosave on, remove() followed by a log call whose key set    *)
(* differs from the schema before the remove leaves a file of one header   *)
(* line, the call's keys in the call's order, and one data line, the       *)
(* call's values.                                                          *)
(***************************************************************************)
C5_RemoveThenLog ==
  [][(autosave /\ h.op = "remove" /\ h'.op = "log"
        /\ KeySet(h'.kw) # Range(h.removed)) =>
       /\ exists'
       /\ lines' = <<KwKeys(h'.kw), Projection(KwKeys(h'.kw), h'.kw)>>]_vars

C5_Witness ==
  /\ autosave
  /\ h.op = "log"
  /\ h.removed # None
  /\ KeySet(h.kw) # Range(h.removed)
  /\ Len(lines) = 2

(***************************************************************************)
(* C6.  Every log call made when the schema is set leaves the schema as it *)
(* is, raises nothing and writes as the last line of the file the          *)
(* projection of the call onto the schema: one field per schema column in  *)
(* schema order, empty for a column the call does not give, nothing for a  *)
(* key outside the schema; no line before it changes.  With autosave off   *)
(* the call writes no line (C8).                                           *)
(***************************************************************************)
C6_Projection ==
  [][(keys # None /\ h'.op = "log") =>
       /\ keys' = keys
       /\ h'.exc = ""
       /\ Len(lines') = Len(lines) + 1
       /\ SubSeq(lines', 1, Len(lines)) = lines
       /\ Last(lines') = Projection(keys, h'.kw)
       /\ Len(Last(lines')) = Len(keys)]_vars

(***************************************************************************)
(* C7.  With autosave on, a log call appends exactly one data line, after  *)
(* a header line exactly when the file did not exist or the instance had   *)
(* no header recorded, and the data line is the last line of the file      *)
(* when the call returns.                                                  *)
(***************************************************************************)
C7_AppendOne ==
  [][(autosave /\ h'.op = "log") =>
       LET header == ~exists \/ ~headers_written
           n == Len(lines)
       IN /\ exists'
          /\ SubSeq(lines', 1, n) = lines
          /\ Len(lines') = n + (IF header THEN 2 ELSE 1)
          /\ header => lines'[n + 1] = keys' /\ HeaderLine(lines'[n + 1])
          /\ DataLine(Last(lines'))
          /\ Last(lines') = Projection(keys', h'.kw)]_vars

C7_Witness ==
  /\ autosave
  /\ h.op = "log"
  /\ h.nlog = 2
  /\ Len(lines) = 3
  /\ HeaderLine(lines[1])
  /\ DataLine(lines[2])
  /\ DataLine(lines[3])

(***************************************************************************)
(* C8.  With autosave off a logged row is kept for a later write: every    *)
(* row passed to log eventually is a line of the file.                     *)
(***************************************************************************)
C8_RowEventuallyWritten ==
  \A r \in SomeRows :
    (~autosave /\ h.op = "log" /\ r = Projection(keys, h.kw))
      ~> (exists /\ \E i \in DOMAIN lines : lines[i] = r)

(***************************************************************************)
(* C9.  Whatever a reader finds, also after a crash inside a log call: no  *)
(* file, an empty file, a header line alone, or a header line followed by  *)
(* complete rows.                                                          *)
(***************************************************************************)
C9_FileShape ==
  exists =>
    \/ lines = <<>>
    \/ /\ HeaderLine(lines[1])
       /\ \A i \in 2..Len(lines) : DataLine(lines[i])

(***************************************************************************)
(* C10.  The log call that creates the file is the instance's first (since *)
(* construction or remove) and writes its keys, in its own order, as the   *)
(* header line; every data line the instance then writes lists the call's  *)
(* values in the header's column order.                                    *)
(***************************************************************************)
C10_HeaderIsFirstKeys ==
  [][(autosave /\ h'.op = "log") =>
       /\ ~exists => (h'.nlog = 1 /\ lines'[1] = KwKeys(h'.kw))
       /\ h'.creator =>
            /\ SubSeq(lines', 1, Len(lines)) = lines
            /\ Last(lines') = Projection(lines'[1], h'.kw)]_vars

C10_Witness ==
  /\ autosave
  /\ h.creator
  /\ h.op = "log"
  /\ h.nlog = 2
  /\ lines[1] = <<"b", "a">>
  /\ KwKeys(h.kw) = <<"a", "b">>
  /\ h.kw[1][2] # h.kw[2][2]

(***************************************************************************)
(* C11.  After N >= 1 log calls on a fresh logger with autosave on, get(c) *)
(* for a schema column c returns N values, the i-th the one the i-th call  *)
(* gave for c (as the file holds it, in row order).                        *)
(***************************************************************************)
ColumnOf(c) == CHOOSE j \in DOMAIN lines[1] : lines[1][j] = c

C11_GetReturnsColumn ==
  (h.op = "get" /\ autosave /\ h.fresh /\ h.nlog >= 1 /\ h.key \in Range(keys)) =>
    /\ h.exc = ""
    /\ Len(h.ret) = h.nlog
    /\ \A i \in DOMAIN h.ret : h.ret[i] = lines[i + 1][ColumnOf(h.key)]

(***************************************************************************)
(* C12.  to_dataframe returns an empty table when the file does not exist; *)
(* get returns an empty sequence and raises nothing when the file does not *)
(* exist or the table has no column of that name; neither call changes the *)
(* file or the instance.                                                   *)
(***************************************************************************)
C12_ReadsOfNothing ==
  [][(h'.op \in {"get", "to_dataframe"}) =>
       /\ UNCHANGED <<autosave, headers_written, keys, exists, lines>>
       /\ (h'.op = "to_dataframe" /\ ~exists) =>
            (h'.exc = "" /\ h'.ret = <<>> /\ h'.height = 0)
       /\ (h'.op = "get" /\ ~exists) => (h'.exc = "" /\ h'.ret = <<>>)
       /\ (h'.op = "get" /\ exists /\ Len(lines) >= 1
             /\ (\A i \in 2..Len(lines) : Len(lines[i]) <= Len(lines[1]))
             /\ h'.key \notin Range(lines[1])
             /\ (\A i, j \in DOMAIN lines[1] : lines[1][i] = lines[1][j] => i = j)) =>
            (h'.exc = "" /\ h'.ret = <<>>)]_vars

C12_Witness ==
  /\ h.op = "get"
  /\ exists
  /\ Len(lines) = 3
  /\ HeaderLine(lines[1])
  /\ h.key = "c"
  /\ h.exc = ""
  /\ h.ret = <<>>

(***************************************************************************)
(* C13.  remove() when the file does not exist raises nothing and changes  *)
(* neither the file system nor the instance, so a second remove() leaves   *)
(* what the first left.                                                    *)
(***************************************************************************)
C13_RemoveIdempotent ==
  [][(h'.op = "remove" /\ (~exists \/ h.op = "remove")) =>
       /\ h'.exc = ""
       /\ UNCHANGED <<autosave, headers_written, keys, exists, lines>>]_vars

C13_Witness ==
  /\ h.op = "remove"
  /\ ~exists
  /\ keys # None
  /\ h.removed = keys

(***************************************************************************)
(* C14.  An existing file that cannot be parsed makes to_dataframe, get    *)
(* and load_from_disk fail with one and the same kind of error, the one    *)
(* to_dataframe raises.                                                    *)
(***************************************************************************)
CorruptLogError == "RuntimeError"

C14_SameErrorKind ==
  (h.op \in {"to_dataframe", "get", "load_from_disk"}
     /\ exists /\ ReadCsv(lines).exc # "") =>
    h.exc = CorruptLogError

(***************************************************************************)
(* C15.  log called with something that is no mapping fails in the call    *)
(* itself with the error of a malformed row, writes nothing to the file    *)
(* and neither sets nor changes the schema.  The error of a malformed row  *)
(* is Python's TypeError: the logger defines no error class of its own.    *)
(***************************************************************************)
InvalidRowError == "TypeError"

C15_NonMappingFails ==
  [][\A x \in BadArgs : LogArg(x) =>
       /\ h'.op = "log"
       /\ h'.exc = InvalidRowError
       /\ UNCHANGED <<autosave, headers_written, keys, exists, lines>>]_vars

C15_Witness ==
  /\ h.op = "log"
  /\ h.exc = InvalidRowError
  /\ autosave
  /\ keys = <<"b">>
  /\ Len(lines) = 2

(***************************************************************************)
(* C16.  gridsearch_params returns the Cartesian product of the per-key    *)
(* value lists, a value that is no list counting as a list of itself: as   *)
(* many dicts as the product of the list lengths (none when a list is      *)
(* empty, one empty dict for the empty input), each holding every input    *)
(* key, the dicts being exactly the combinations, and no dict twice when   *)
(* no list holds a value twice.                                            *)
(***************************************************************************)
ValueList(v) == IF v.t = "list" THEN v.v ELSE <<v>>

RECURSIVE ProdLen(_)
ProdLen(d) ==
  IF d = <<>> THEN 1 ELSE Len(ValueList(d[1][2])) * ProdLen(Tail(d))

AsFn(d) == [k \in KeySet(d) |-> (CHOOSE it \in Range(d) : it[1] = k)[2]]

Combinations(d) ==
  {f \in [KeySet(d) -> {PyInt(1), PyInt(2)}] :
     \A i \in DOMAIN d : f[d[i][1]] \in Range(ValueList(d[i][2]))}

NoDuplicates(l) == \A i, j \in DOMAIN l : l[i] = l[j] => i = j

C16_CartesianProduct ==
  fn.op = "gridsearch_params" =>
    LET d == fn.args[1]
    IN /\ Len(fn.ret) = ProdLen(d)
       /\ \A n \in DOMAIN fn.ret : KeySet(fn.ret[n]) = KeySet(d)
                                   /\ Len(fn.ret[n]) = Len(d)
       /\ {AsFn(fn.ret[n]) : n \in DOMAIN fn.ret} = Combinations(d)
       /\ (\A i \in DOMAIN d : NoDuplicates(ValueList(d[i][2]))) =>
            NoDuplicates(fn.ret)

C16_Witness ==
  /\ fn.op = "gridsearch_params"
  /\ fn.args[1] = << <<"lr", PyList(<<PyInt(1), PyInt(2)>>)>>,
                     <<"track", PyList(<<PyInt(2), PyInt(1)>>)>> >>
  /\ Len(fn.ret) = 4

(***************************************************************************)
(* C17.  gridsearch_params keeps the key 'track' out of the search: every  *)
(* dict it returns holds 'track' with the value it was given, and there    *)
(* are as many dicts as the other keys have combinations.                  *)
(***************************************************************************)
WithoutKey(d, k) == SelectSeq(d, LAMBDA it : it[1] # k)

C17_TrackExcluded ==
  (fn.op = "gridsearch_params" /\ "track" \in KeySet(fn.args[1])) =>
    /\ Len(fn.ret) = ProdLen(WithoutKey(fn.args[1], "track"))
    /\ \A n \in DOMAIN fn.ret :
         /\ "track" \in KeySet(fn.ret[n])
         /\ KwGet(fn.ret[n], "track") = KwGet(fn.args[1], "track")

(***************************************************************************)
(* C18.  filter_run(cfg_subset, cfg_full) is True exactly when every key   *)
(* of cfg_subset is a key of cfg_full and has an equal value there, also   *)
(* for the entries of cfg_subset whose value is None.                      *)
(***************************************************************************)
C18_FilterRunExact ==
  fn.op = "filter_run" =>
    (fn.ret <=> \A i \in DOMAIN fn.args[1] :
                  \E j \in DOMAIN fn.args[2] : fn.args[2][j] = fn.args[1][i])

(***************************************************************************)
(* C19.  When dict_to_filename is given select_keys (any list, the empty   *)
(* one too, and also next to ignore_keys), the result holds the pairs      *)
(* whose key is in select_keys and no other, in ascending order of the     *)
(* keys, whatever the order of the dict.                                   *)
(***************************************************************************)
NumberText(v) == IF v = PyInt(1) THEN "1" ELSE "2"

SelectedName(data, delimiter, select_keys) ==
  LET chosen == SelectSeq(KeyOrder, LAMBDA k : k \in KeySet(data) /\ k \in Range(select_keys))
  IN Join(delimiter,
          [i \in DOMAIN chosen |->
             chosen[i] \o delimiter \o NumberText(KwGet(data, chosen[i]))])

C19_SelectKeysOnly ==
  (fn.op = "dict_to_filename" /\ fn.args[4] # None) =>
    fn.ret = SelectedName(fn.args[1], fn.args[2], fn.args[4])

(***************************************************************************)
(* C20.  Every data line of the file has as many fields as the header      *)
(* line, and the line a log call writes holds the call's values under the  *)
(* header's columns, also for a logger constructed on an existing file and *)
(* used without load_from_disk.                                            *)
(***************************************************************************)
C20_RowsMatchHeader ==
  (exists /\ Len(lines) >= 2) =>
    /\ \A i \in 2..Len(lines) : Len(lines[i]) = Len(lines[1])
    /\ (h.op = "log" /\ h.exc = "" /\ autosave) =>
         Last(lines) = Projection(lines[1], h.kw)

(***************************************************************************)
(* C22.  load_from_disk called when the file does not exist returns        *)
(* without raising and leaves the schema and the header-written flag as    *)
(* they were.                                                              *)
(***************************************************************************)
C22_LoadMissingReturns ==
  [][(h'.op = "load_from_disk" /\ ~exists) =>
       /\ h'.exc = ""
       /\ UNCHANGED <<keys, headers_written, exists, lines>>]_vars

(***************************************************************************)
(* C21.  When two instances are constructed on the same path before the    *)
(* file exists, then after any sequence of whole log calls through them    *)
(* the file holds exactly one header line: the instance that writes second *)
(* does not write the header again.                                        *)
(***************************************************************************)
C21_OneHeaderForTwo ==
  exists => Cardinality({i \in DOMAIN lines : HeaderLine(lines[i])}) = 1

(***************************************************************************)
(* C23.  In the qstat window at most one JobLoaderThread is in flight      *)
(* (started and not finished) at any time, the Refresh button is disabled  *)
(* whenever a loader is in flight, and the GUI thread is never inside      *)
(* ssh.exec while a loader thread is inside it.                            *)
(***************************************************************************)
InFlight == {i \in DOMAIN loaders : loaders[i].st # "finished"}

C23_OneLoaderInFlight ==
  /\ Cardinality(InFlight) <= 1
  /\ InFlight # {} => ~refresh_enabled
  /\ ~(gui_pc = "qdel" /\ \E i \in DOMAIN loaders : loaders[i].st = "exec")

(***************************************************************************)
(* C24.  Every run of a JobLoaderThread emits exactly one of jobs_loaded   *)
(* and error before it finishes: error when the ssh call raised or stderr  *)
(* is not empty, otherwise jobs_loaded with the output lines after the     *)
(* first two (none when the output has fewer than three lines).  After a   *)
(* loader has finished, the Refresh button is eventually enabled.          *)
(* The first half holds in every state; the second fails for the loaders   *)
(* that C23 lets run beside a newer one.                                   *)
(***************************************************************************)
AfterFirstTwo(out) ==
  IF Len(out) < 3 THEN <<>> ELSE [k \in 1..(Len(out) - 2) |-> out[k + 2]]

EmitsOnce(l) ==
  IF l.st \in {"started", "exec"} THEN l.emitted = <<>>
  ELSE /\ Len(l.emitted) = 1
       /\ IF l.res.raised \/ l.res.err # ""
          THEN l.emitted[1].sig = "error"
          ELSE /\ l.emitted[1].sig = "jobs_loaded"
               /\ l.emitted[1].arg = AfterFirstTwo(l.res.out)

C24_RunEmitsOnce ==
  /\ [](\A i \in DOMAIN loaders : EmitsOnce(loaders[i]))
  /\ (\E i \in DOMAIN loaders : loaders[i].awaited) ~> refresh_enabled

====
